---- MODULE Spec2Model ----
(***************************************************************************)
(* Client Ack File Processor v4.2: the error-mapping engine                *)
(* (apply_error_mapping), the mapping loader (load_error_mapping_file),    *)
(* the reason code translator (get_transaction_reason_text), the record    *)
(* transform pipeline (process_csv_file) and the file loop of the script.  *)
(*                                                                         *)
(* A cell of a DataFrame is a Python value, modelled as a record           *)
(* [t |-> type, s |-> str(value)]: the type decides how pandas and Python  *)
(* treat the value, s is what str() / astype(str) gives for it.            *)
(***************************************************************************)
EXTENDS Integers, Sequences, FiniteSets, TLC

(***************************************************************************)
(* Column names (module constants of the script).                          *)
(***************************************************************************)
TRANSFER_FLAG_COL == "Transfer_Flag"
JOB_RUN_REGISTRATION_COL == "job_run_registration"
INCOMING_RECORD_GUID_COL == "incoming_record_guid"
ERROR_UPDATE_DATETIME_COL == "Error_Update_Datetime"
IS_IPAY_COL == "is_ipay"
ERROR_JOB_RUN_COL == "Error_Job_Run"
ERROR_SOURCE_COL == "Error_Source"
GENESIS_JOB_RUN_COL == "Genesis_Job_Run"
STANDARD_JOB_RUN_COL == "Standard_Job_Run"
ORIGINAL_CONTRACT_NUMBER_COL == "Original_Contract_Number"
SOURCE_FILENAME_COL == "Source_Filename"
INCOMING_CLIENT_FILENAME_COL == "incoming_client_filename"
CLIENT_ACTION_COL == "Client_Action"
ERROR_MESSAGE_COL == "Error_Message"
ERROR_TYPE_COL == "Error_Type"
TRANSACTION_REASON_COL == "Transaction_Reason"
IS_ERROR_COL == "isError"
CUSTOMER_FIRST_NAME_COL == "Customer_First_Name"
CUSTOMER_ADDRESS_1_COL == "Customer_Address_1"
CUSTOMER_CITY_COL == "Customer_City"
CUSTOMER_STATE_COL == "Customer_State"
CUSTOMER_ZIP_CODE_COL == "Customer_Zip_Code"
CUSTOMER_PHONE_COL == "Customer_Phone"
CUSTOMER_EMAIL_COL == "Customer_Email"
AGENT_NUMBER_COL == "Agent_Number"
PROPERTY_ADDRESS_COL == "Property_Address"
PROPERTY_CITY_COL == "Property_City"
PROPERTY_STATE_CODE_COL == "Property_State_Code"
PROPERTY_ZIP_COL == "Property_Zip"
COSIGN_PII_COLUMNS ==
  <<PROPERTY_ADDRESS_COL, PROPERTY_CITY_COL, PROPERTY_STATE_CODE_COL, PROPERTY_ZIP_COL>>
CSV_EXTENSION == ".csv"

\* The transient columns apply_error_mapping adds to its working copy.
TRANSACTION_REASON_TEXT_COL == "Transaction_Reason_Text"
COMPOSITE_KEY_COL == "composite_key"

(***************************************************************************)
(* Strings, character by character.                                        *)
(***************************************************************************)
CharAt(s, i) == SubSeq(s, i, i)
Tail1(s) == SubSeq(s, 2, Len(s))
Range(f) == {f[i] : i \in DOMAIN f}
SeqContains(q, x) == \E i \in DOMAIN q : q[i] = x

LowerAlphabet == "abcdefghijklmnopqrstuvwxyz"
UpperAlphabet == "ABCDEFGHIJKLMNOPQRSTUVWXYZ"

\* the upper-case letter of each lower-case letter
UpperOf ==
  [c \in {CharAt(LowerAlphabet, i) : i \in 1..Len(LowerAlphabet)} |->
     CharAt(UpperAlphabet, CHOOSE i \in 1..Len(LowerAlphabet) : CharAt(LowerAlphabet, i) = c)]

\* str.upper() on one character.
UpperChar(c) == IF c \in DOMAIN UpperOf THEN UpperOf[c] ELSE c

RECURSIVE StrUpper(_)
StrUpper(s) == IF Len(s) = 0 THEN "" ELSE UpperChar(CharAt(s, 1)) \o StrUpper(Tail1(s))

IsSpace(c) == c \in {" ", "\t", "\n", "\r"}

RECURSIVE LStrip(_)
LStrip(s) == IF Len(s) > 0 /\ IsSpace(CharAt(s, 1)) THEN LStrip(Tail1(s)) ELSE s

RECURSIVE RStrip(_)
RStrip(s) ==
  IF Len(s) > 0 /\ IsSpace(CharAt(s, Len(s))) THEN RStrip(SubSeq(s, 1, Len(s) - 1)) ELSE s

\* str.strip()
StrStrip(s) == RStrip(LStrip(s))

DecimalDigits == "0123456789"
DigitValueOf ==
  [c \in {CharAt(DecimalDigits, i) : i \in 1..Len(DecimalDigits)} |->
     (CHOOSE i \in 1..Len(DecimalDigits) : CharAt(DecimalDigits, i) = c) - 1]
IsDecimalChar(c) == c \in DOMAIN DigitValueOf
DecimalValue(c) == DigitValueOf[c]

\* A character for which str.isdigit() is true and int() raises ValueError
\* (a superscript or circled digit: category No with a digit value). The one
\* such character of the model is written "^".
IsNonDecimalDigitChar(c) == c = "^"

\* str.isdigit(): non-empty and every character a digit.
StrIsDigit(s) ==
  /\ Len(s) > 0
  /\ \A i \in 1..Len(s) : IsDecimalChar(CharAt(s, i)) \/ IsNonDecimalDigitChar(CharAt(s, i))

\* Whether int(s) accepts the digit string s (every character a decimal digit).
IntAccepts(s) == Len(s) > 0 /\ \A i \in 1..Len(s) : IsDecimalChar(CharAt(s, i))

RECURSIVE IntOfDigits(_)
IntOfDigits(s) ==
  IF Len(s) = 0 THEN 0
  ELSE IntOfDigits(SubSeq(s, 1, Len(s) - 1)) * 10 + DecimalValue(CharAt(s, Len(s)))

\* re.sub("nan", "", s): every non-overlapping occurrence, left to right; the
\* result is not scanned again.
RECURSIVE RegexRemoveNan(_)
RegexRemoveNan(s) ==
  IF Len(s) < 3 THEN s
  ELSE IF SubSeq(s, 1, 3) = "nan" THEN RegexRemoveNan(SubSeq(s, 4, Len(s)))
  ELSE CharAt(s, 1) \o RegexRemoveNan(Tail1(s))

(***************************************************************************)
(* Python values.                                                          *)
(***************************************************************************)
PyStr(s) == [t |-> "str", s |-> s]
PyInt(n) == [t |-> "int", s |-> ToString(n)]
PyFloatOfInt(n) == [t |-> "float", s |-> ToString(n) \o ".0"]
PyBool(b) == [t |-> "bool", s |-> IF b THEN "True" ELSE "False"]
NaN == [t |-> "float", s |-> "nan"]
IsNaN(v) == v = NaN
\* str(v), and Series.astype(str) on one cell
StrOf(v) == v.s
AsStr(v) == PyStr(v.s)

(***************************************************************************)
(* DataFrames: an ordered list of column names and an ordered list of      *)
(* rows, each row a function from the column names to cells.               *)
(***************************************************************************)
HasCol(df, c) == SeqContains(df.cols, c)
ColLoc(cols, c) == CHOOSE i \in DOMAIN cols : cols[i] = c
Rows(df) == DOMAIN df.rows

\* list.insert(idx0, c) / DataFrame.insert with the 0-based position idx0
ListInsert(cols, idx0, c) ==
  SubSeq(cols, 1, idx0) \o <<c>> \o SubSeq(cols, idx0 + 1, Len(cols))
\* list.pop(idx0) leaves this list
ListRemoveAt(cols, idx0) ==
  SubSeq(cols, 1, idx0) \o SubSeq(cols, idx0 + 2, Len(cols))

RECURSIVE SeqFilter(_, _)
SeqFilter(q, keep) ==
  IF Len(q) = 0 THEN <<>>
  ELSE (IF Head(q) \in keep THEN <<Head(q)>> ELSE <<>>) \o SeqFilter(Tail(q), keep)

\* df[c] = values, values[i] the new cell of row i: an existing column keeps
\* its place, a new one goes last.
SetColumn(df, c, values) ==
  [cols |-> IF HasCol(df, c) THEN df.cols ELSE Append(df.cols, c),
   rows |-> [i \in Rows(df) |->
              [k \in DOMAIN df.rows[i] \cup {c} |->
                 IF k = c THEN values[i] ELSE df.rows[i][k]]]]

\* df.insert(idx0, c, scalar)
InsertColumn(df, idx0, c, v) ==
  [cols |-> ListInsert(df.cols, idx0, c),
   rows |-> [i \in Rows(df) |->
              [k \in DOMAIN df.rows[i] \cup {c} |-> IF k = c THEN v ELSE df.rows[i][k]]]]

\* df.loc[mask, c] = values
SetCells(df, mask, c, values) ==
  [df EXCEPT !.rows = [i \in Rows(df) |->
     IF i \in mask THEN [df.rows[i] EXCEPT ![c] = values[i]] ELSE df.rows[i]]]

\* df.drop(columns = drop)
DropColumns(df, drop) ==
  LET keep == Range(df.cols) \ drop
  IN [cols |-> SeqFilter(df.cols, keep),
      rows |-> [i \in Rows(df) |-> [k \in keep |-> df.rows[i][k]]]]

\* df[cols]: the same rows under a new column order
Reindex(df, cols) == [df EXCEPT !.cols = cols]

(***************************************************************************)
(* pd.read_csv with its defaults, on an uploaded file                      *)
(*   [name, kind, cols, rows]: kind "blank" is empty or whitespace-only    *)
(*   content, "nocolumns" is content in which the parser finds no column   *)
(*   (EmptyDataError: "No columns to parse from file"), "malformed" makes  *)
(*   the parser raise ParserError, "csv" is a header line and data lines;  *)
(*   rows[i][c] is the text of the cell. Headers are distinct non-blank    *)
(*   names, which read_csv keeps as they are.                              *)
(***************************************************************************)
NAStrings ==
  {"", "#N/A", "#N/A N/A", "#NA", "-1.#IND", "-1.#QNAN", "-NaN", "-nan", "1.#IND",
   "1.#QNAN", "<NA>", "N/A", "NA", "NULL", "NaN", "None", "n/a", "nan", "null"}
BoolTrueStrings == {"True", "TRUE", "true"}
BoolFalseStrings == {"False", "FALSE", "false"}

\* The dtype the parser infers for a column from all of its cells.
InferDtype(rows, c) ==
  LET cells == {rows[i][c] : i \in DOMAIN rows}
      present == cells \ NAStrings
      hasNA == cells \cap NAStrings # {}
  IN IF present = {} THEN "float64"
     ELSE IF \A x \in present : IntAccepts(x) THEN (IF hasNA THEN "float64" ELSE "int64")
     ELSE IF \A x \in present : x \in BoolTrueStrings \cup BoolFalseStrings
          THEN (IF hasNA THEN "object_bool" ELSE "bool")
     ELSE "object"

ParseCell(dtype, x) ==
  IF x \in NAStrings THEN NaN
  ELSE CASE dtype = "int64" -> PyInt(IntOfDigits(x))
         [] dtype = "float64" -> PyFloatOfInt(IntOfDigits(x))
         [] dtype \in {"bool", "object_bool"} -> PyBool(x \in BoolTrueStrings)
         [] OTHER -> PyStr(x)

read_csv(file) ==
  IF file.kind = "nocolumns" THEN [raised |-> "EmptyDataError"]
  ELSE IF file.kind = "malformed" THEN [raised |-> "ParserError"]
  ELSE CHOOSE r \in
         {[raised |-> "",
           df |-> [cols |-> file.cols,
                   rows |-> [i \in DOMAIN file.rows |->
                              [c \in Range(file.cols) |-> ParseCell(dtype[c], file.rows[i][c])]]]] :
            dtype \in {[c \in Range(file.cols) |-> InferDtype(file.rows, c)]}} : TRUE

(***************************************************************************)
(* get_transaction_reason_text                                             *)
(***************************************************************************)
CodeMapKeys == {1, 2, 3, 5}
code_map(n) == CASE n = 1 -> "Sales" [] n = 2 -> "Payments" [] n = 3 -> "Cancels" [] n = 5 -> "Sales"

\* The integer a non-string value equals (and hashes as): an int is itself,
\* a float with no fraction its integer, True 1 and False 0; -1 for none.
NumericKey(v) ==
  CASE v.t = "int" /\ IntAccepts(v.s) -> IntOfDigits(v.s)
    [] v.t = "float" /\ Len(v.s) > 2 /\ SubSeq(v.s, Len(v.s) - 1, Len(v.s)) = ".0"
         /\ IntAccepts(SubSeq(v.s, 1, Len(v.s) - 2)) -> IntOfDigits(SubSeq(v.s, 1, Len(v.s) - 2))
    [] v.t = "bool" -> (IF v.s = "True" THEN 1 ELSE 0)
    [] OTHER -> -1

\* code_map.get(int(code) if str(code).isdigit() else code, str(code)):
\* [raised, text], raised when int() rejects a string isdigit() accepts.
get_transaction_reason_text(code) ==
  IF StrIsDigit(StrOf(code))
  THEN IF ~IntAccepts(StrOf(code)) THEN [raised |-> TRUE, text |-> ""]
       ELSE [raised |-> FALSE,
             text |-> IF IntOfDigits(StrOf(code)) \in CodeMapKeys
                      THEN code_map(IntOfDigits(StrOf(code))) ELSE StrOf(code)]
  ELSE [raised |-> FALSE,
        text |-> IF NumericKey(code) \in CodeMapKeys THEN code_map(NumericKey(code))
                 ELSE StrOf(code)]

(***************************************************************************)
(* load_error_mapping_file: the uploaded mapping file is read with         *)
(* dtype=str, keep_default_na=False, so every cell is its text. The        *)
(* result is None ([loaded |-> FALSE]) or the cleaned table, whose rows    *)
(* are functions from the column names to strings.                         *)
(***************************************************************************)
MAP_ERROR_TYPE == "Error_Type"
MAP_CLIENT_ERROR_TYPE == "Client_Error_Type"
MAP_CLIENT_ACTION == "Client Action"
MAP_FILE_TYPE_2 == "file_type_2"
required_cols == <<MAP_ERROR_TYPE, MAP_CLIENT_ERROR_TYPE, MAP_CLIENT_ACTION>>
strip_cols == {MAP_ERROR_TYPE, MAP_CLIENT_ERROR_TYPE, MAP_CLIENT_ACTION, MAP_FILE_TYPE_2}

RECURSIVE SeqSelectIdx(_, _, _)
\* the elements of q whose position (counted from i) is in keep, in order
SeqSelectIdx(q, i, keep) ==
  IF Len(q) = 0 THEN <<>>
  ELSE (IF i \in keep THEN <<Head(q)>> ELSE <<>>) \o SeqSelectIdx(Tail(q), i + 1, keep)

\* DataFrame.drop_duplicates(): a row equal in every column to an earlier row goes.
drop_duplicates(rows) ==
  SeqSelectIdx(rows, 1, {i \in DOMAIN rows : \A j \in 1..(i - 1) : rows[j] # rows[i]})

None == [loaded |-> FALSE, cols |-> <<>>, rows |-> <<>>]

\* load_error_mapping_file without the check of the required columns: a
\* missing column reads as empty text.
load_error_mapping_file_unchecked(file) ==
  IF file.kind # "csv" THEN None
  ELSE LET cols == file.cols \o SeqFilter(required_cols, Range(required_cols) \ Range(file.cols))
           filled == [i \in DOMAIN file.rows |->
                        [c \in Range(cols) |->
                           IF c \in DOMAIN file.rows[i] THEN file.rows[i][c] ELSE ""]]
           nonblank == SeqSelectIdx(filled, 1,
                         {i \in DOMAIN filled : StrStrip(filled[i][MAP_ERROR_TYPE]) # ""})
           unique == drop_duplicates(nonblank)
       IN [loaded |-> TRUE,
           cols |-> cols,
           rows |-> [i \in DOMAIN unique |->
                      [c \in DOMAIN unique[i] |->
                         IF c \in strip_cols THEN StrStrip(unique[i][c]) ELSE unique[i][c]]]]

load_error_mapping_file(file) ==
  IF file.kind # "csv" THEN None
  ELSE IF \E k \in DOMAIN required_cols : ~SeqContains(file.cols, required_cols[k]) THEN None
  ELSE LET nonblank == SeqSelectIdx(file.rows, 1,
                         {i \in DOMAIN file.rows : StrStrip(file.rows[i][MAP_ERROR_TYPE]) # ""})
           unique == drop_duplicates(nonblank)
       IN [loaded |-> TRUE,
           cols |-> file.cols,
           rows |-> [i \in DOMAIN unique |->
                      [c \in DOMAIN unique[i] |->
                         IF c \in strip_cols THEN StrStrip(unique[i][c]) ELSE unique[i][c]]]]

(***************************************************************************)
(* apply_error_mapping. The result records what the call returned (df),    *)
(* whether the body raised into its except clause (raised), and the masks  *)
(* and counters of the run.                                                *)
(***************************************************************************)
DisplayCap == 10

\* dict(zip(keys, values))[k]: the value of the last row carrying the key
DictLast(keys, k) == CHOOSE j \in DOMAIN keys :
                       keys[j] = k /\ \A h \in DOMAIN keys : keys[h] = k => h <= j

RECURSIVE UniqueCells(_, _, _)
\* Series.unique() of column c over the rows of mask, in row order
UniqueCells(df, c, todo) ==
  IF todo = {} THEN <<>>
  ELSE LET i == CHOOSE x \in todo : \A y \in todo : x <= y
           v == df.rows[i][c]
       IN <<v>> \o UniqueCells(df, c, {y \in todo : y # i /\ df.rows[y][c] # v})

EngineResult(df, raised, ran, error_rows, tier1, error_mask, simple_match_mask, unmatched) ==
  [df |-> df, raised |-> raised, ran |-> ran, error_rows |-> error_rows, tier1 |-> tier1,
   error_mask |-> error_mask, simple_match_mask |-> simple_match_mask,
   mappings_applied |-> Cardinality(error_mask) + Cardinality(simple_match_mask),
   total_errors |-> Cardinality(error_rows), unmatched_errors |-> unmatched]

\* The one element of a singleton set: {e(v) : v \in {x}} evaluates x once
\* before e uses it.
The(S) == CHOOSE v \in S : TRUE

\* error_rows_of taking every row for an error row
error_rows_of_every_row(df) == Rows(df)

\* Line 347
error_rows_of(df) == {i \in Rows(df) : StrUpper(StrOf(df.rows[i][IS_ERROR_COL])) = "TRUE"}

\* Lines 353-357: the reason texts, or a raise out of get_transaction_reason_text.
ReasonTexts(df) == [i \in Rows(df) |-> get_transaction_reason_text(df.rows[i][TRANSACTION_REASON_COL])]

\* Lines 372-376: the mapping table's composite keys, row by row
mapping_composite_keys(mapping_df) ==
  [j \in DOMAIN mapping_df.rows |->
     mapping_df.rows[j][MAP_ERROR_TYPE] \o "|" \o mapping_df.rows[j][MAP_FILE_TYPE_2]]

\* Lines 377-381: the working copy with its composite_key column
with_composite_key(df) ==
  SetColumn(df, COMPOSITE_KEY_COL,
    [i \in Rows(df) |->
       PyStr(StrOf(df.rows[i][ERROR_TYPE_COL]) \o "|" \o StrOf(df.rows[i][TRANSACTION_REASON_TEXT_COL]))])

\* Lines 401-413: the rewrite of the rows of error_mask from the composite dictionaries
composite_rewrite(keyed, mapping_df, mkeys, error_mask) ==
  [keyed EXCEPT !.rows = [i \in Rows(keyed) |->
     IF i \notin error_mask THEN keyed.rows[i]
     ELSE [c \in DOMAIN keyed.rows[i] |->
             IF c = ERROR_TYPE_COL
             THEN PyStr(mapping_df.rows[DictLast(mkeys, keyed.rows[i][COMPOSITE_KEY_COL].s)][MAP_CLIENT_ERROR_TYPE])
             ELSE IF c = CLIENT_ACTION_COL
             THEN PyStr(mapping_df.rows[DictLast(mkeys, keyed.rows[i][COMPOSITE_KEY_COL].s)][MAP_CLIENT_ACTION])
             ELSE keyed.rows[i][c]]]]

\* composite_mask over every row of the record set, error row or not
composite_mask_any_row(keyed, mkeys, error_rows) ==
  {i \in Rows(keyed) : \E j \in DOMAIN mkeys : mkeys[j] = keyed.rows[i][COMPOSITE_KEY_COL].s}

\* Lines 397-399
composite_mask(keyed, mkeys, error_rows) ==
  {i \in error_rows : \E j \in DOMAIN mkeys : mkeys[j] = keyed.rows[i][COMPOSITE_KEY_COL].s}

\* Lines 366-418: strategy 1 on the working copy df (which carries the
\* reason texts), [df, error_mask].
composite_strategy(df, mapping_df, error_rows) ==
  The({[df |-> composite_rewrite(kd[1], mapping_df, kd[2], composite_mask(kd[1], kd[2], error_rows)),
        error_mask |-> composite_mask(kd[1], kd[2], error_rows)] :
         kd \in {<<with_composite_key(df), mapping_composite_keys(mapping_df)>>}})

\* Lines 427-435: the keys of the simple dictionaries, row by row
mapping_simple_keys(mapping_df) == [j \in DOMAIN mapping_df.rows |-> mapping_df.rows[j][MAP_ERROR_TYPE]]

\* Series.isin(keys) on one cell: a str equal to a key
InKeys(skeys, v) == v.t = "str" /\ \E j \in DOMAIN skeys : skeys[j] = v.s

\* Lines 438-440
simple_mask(df, skeys, remaining_errors) ==
  {i \in remaining_errors : InKeys(skeys, df.rows[i][ERROR_TYPE_COL])}

\* Lines 444-446: Error_Type of the matched rows becomes the mapped Client_Error_Type
simple_rewrite_type(df, mapping_df, skeys, simple_match_mask) ==
  [df EXCEPT !.rows = [i \in Rows(df) |->
     IF i \notin simple_match_mask THEN df.rows[i]
     ELSE [df.rows[i] EXCEPT ![ERROR_TYPE_COL] =
             PyStr(mapping_df.rows[DictLast(skeys, df.rows[i][ERROR_TYPE_COL].s)][MAP_CLIENT_ERROR_TYPE])]]]

\* Lines 449-454: Client_Action of the matched rows is looked up by the
\* Error_Type the rows carry now (typed: after lines 444-446); a key the
\* dictionary lacks gives NaN, which fillna turns into "".
simple_rewrite_action(typed, mapping_df, skeys, simple_match_mask) ==
  IF ~HasCol(typed, CLIENT_ACTION_COL) THEN typed
  ELSE [typed EXCEPT !.rows = [i \in Rows(typed) |->
          IF i \notin simple_match_mask THEN typed.rows[i]
          ELSE [typed.rows[i] EXCEPT ![CLIENT_ACTION_COL] =
                  IF InKeys(skeys, typed.rows[i][ERROR_TYPE_COL])
                  THEN PyStr(mapping_df.rows[DictLast(skeys, typed.rows[i][ERROR_TYPE_COL].s)][MAP_CLIENT_ACTION])
                  ELSE PyStr("")]]]

\* Lines 425-459: strategy 2 over the remaining error rows, [df, simple_match_mask].
simple_strategy(df, mapping_df, remaining_errors) ==
  The({The({[df |-> simple_rewrite_action(typed, mapping_df, km[1], km[2]),
             simple_match_mask |-> km[2]] :
              typed \in {simple_rewrite_type(df, mapping_df, km[1], km[2])}}) :
         km \in {<<mapping_simple_keys(mapping_df),
                   simple_mask(df, mapping_simple_keys(mapping_df), remaining_errors)>>}})

\* Lines 494-498: ', '.join(unmatched_errors[:10]) raises TypeError on an item
\* that is not a str.
ReportRaises(unmatched_errors) ==
  \E k \in DOMAIN unmatched_errors : k <= DisplayCap /\ unmatched_errors[k].t # "str"

\* finish_mapping with an except clause that returns the working copy
\* (return result_df) in place of ack_df.
finish_mapping_result_df(ack_df, error_rows, tier1, s1, s2) ==
  The({EngineResult(DropColumns(s2.df, {COMPOSITE_KEY_COL, TRANSACTION_REASON_TEXT_COL}),
                    ReportRaises(unmatched_errors), TRUE, error_rows, tier1, s1.error_mask,
                    s2.simple_match_mask, unmatched_errors) :
         unmatched_errors \in
           {UniqueCells(s2.df, ERROR_TYPE_COL,
                        error_rows \ (s1.error_mask \cup s2.simple_match_mask))}})

\* Lines 461-506: the unmatched rows, the cleanup of the transient columns,
\* the report, and the except clause the report may reach.
finish_mapping(ack_df, error_rows, tier1, s1, s2) ==
  The({IF ReportRaises(unmatched_errors)
       THEN EngineResult(ack_df, TRUE, TRUE, error_rows, tier1, s1.error_mask,
                         s2.simple_match_mask, unmatched_errors)
       ELSE EngineResult(DropColumns(s2.df, {COMPOSITE_KEY_COL, TRANSACTION_REASON_TEXT_COL}),
                         FALSE, TRUE, error_rows, tier1, s1.error_mask,
                         s2.simple_match_mask, unmatched_errors) :
         unmatched_errors \in
           {UniqueCells(s2.df, ERROR_TYPE_COL,
                        error_rows \ (s1.error_mask \cup s2.simple_match_mask))}})

\* Lines 420-459
run_simple(ack_df, mapping_df, error_rows, tier1, s1) ==
  The({finish_mapping(ack_df, error_rows, tier1, s1, s2) :
         s2 \in {IF error_rows \ s1.error_mask # {}
                 THEN simple_strategy(s1.df, mapping_df, error_rows \ s1.error_mask)
                 ELSE [df |-> s1.df, simple_match_mask |-> {}]}})

\* Lines 366-418
run_composite(ack_df, mapping_df, error_rows, texted) ==
  The({run_simple(ack_df, mapping_df, error_rows, tier1, s1) :
         tier1 \in {HasCol(texted, TRANSACTION_REASON_TEXT_COL)
                      /\ SeqContains(mapping_df.cols, MAP_FILE_TYPE_2)},
         s1 \in {IF HasCol(texted, TRANSACTION_REASON_TEXT_COL)
                      /\ SeqContains(mapping_df.cols, MAP_FILE_TYPE_2)
                 THEN composite_strategy(texted, mapping_df, error_rows)
                 ELSE [df |-> texted, error_mask |-> {}]}})

\* Lines 349-357
run_mapping(ack_df, mapping_df, error_rows) ==
  IF error_rows = {} THEN EngineResult(ack_df, FALSE, FALSE, {}, FALSE, {}, {}, <<>>)
  ELSE IF ~HasCol(ack_df, TRANSACTION_REASON_COL)
  THEN run_composite(ack_df, mapping_df, error_rows, ack_df)
  ELSE The({IF \E i \in Rows(ack_df) : texts[i].raised
            THEN EngineResult(ack_df, TRUE, TRUE, error_rows, FALSE, {}, {}, <<>>)
            ELSE The({run_composite(ack_df, mapping_df, error_rows, texted) :
                        texted \in {SetColumn(ack_df, TRANSACTION_REASON_TEXT_COL,
                                      [i \in Rows(ack_df) |-> PyStr(texts[i].text)])}}) :
              texts \in {ReasonTexts(ack_df)}})

apply_error_mapping(ack_df, mapping_df) ==
  IF ~HasCol(ack_df, ERROR_TYPE_COL) \/ ~HasCol(ack_df, IS_ERROR_COL)
  THEN EngineResult(ack_df, FALSE, FALSE, {}, FALSE, {}, {}, <<>>)
  ELSE The({run_mapping(ack_df, mapping_df, error_rows) : error_rows \in {error_rows_of(ack_df)}})

(***************************************************************************)
(* process_csv_file, step by step.                                         *)
(***************************************************************************)
columns_to_drop_general ==
  <<TRANSFER_FLAG_COL, JOB_RUN_REGISTRATION_COL, INCOMING_RECORD_GUID_COL, IS_IPAY_COL,
    ERROR_JOB_RUN_COL, ERROR_SOURCE_COL, ERROR_UPDATE_DATETIME_COL, GENESIS_JOB_RUN_COL,
    STANDARD_JOB_RUN_COL>>
pii_columns_customer ==
  <<CUSTOMER_FIRST_NAME_COL, CUSTOMER_ADDRESS_1_COL, CUSTOMER_CITY_COL, CUSTOMER_STATE_COL,
    CUSTOMER_ZIP_CODE_COL, CUSTOMER_PHONE_COL, CUSTOMER_EMAIL_COL>>

\* Lines 536-551: the ValueError a file with content is refused with ("" for
\* none), given what read_csv made of it. The errors are named after their
\* messages: EmptyFile (line 530, blank content), EmptyData (539), ParseError
\* (543), NoDataRows (546), NoColumns (551).
validate_frame(parsed) ==
  IF parsed.raised = "EmptyDataError" THEN "EmptyData"
  ELSE IF parsed.raised = "ParserError" THEN "ParseError"
  \* df.empty: no row or no column
  ELSE IF Len(parsed.df.rows) = 0 \/ Len(parsed.df.cols) = 0 THEN "NoDataRows"
  \* not df.columns.any(): no column name is a non-empty string
  ELSE IF ~\E k \in DOMAIN parsed.df.cols : parsed.df.cols[k] # "" THEN "NoColumns"
  ELSE ""

\* Lines 557-581
drop_general(df) == DropColumns(df, Range(columns_to_drop_general) \cap Range(df.cols))

\* Lines 586-593
desired_source_filename(global_source_filename) ==
  IF global_source_filename # "" THEN global_source_filename \o CSV_EXTENSION ELSE ""

\* handle_source_filename inserting at get_loc in place of get_loc + 1
handle_source_filename_at_loc(df, global_source_filename) ==
  LET v == PyStr(desired_source_filename(global_source_filename))
  IN IF ~HasCol(df, SOURCE_FILENAME_COL)
     THEN IF HasCol(df, ORIGINAL_CONTRACT_NUMBER_COL)
          THEN InsertColumn(df, ColLoc(df.cols, ORIGINAL_CONTRACT_NUMBER_COL) - 1,
                            SOURCE_FILENAME_COL, v)
          ELSE SetColumn(df, SOURCE_FILENAME_COL, [i \in Rows(df) |-> v])
     ELSE SetColumn(df, SOURCE_FILENAME_COL, [i \in Rows(df) |-> v])

\* Lines 595-616
handle_source_filename(df, global_source_filename) ==
  LET v == PyStr(desired_source_filename(global_source_filename))
  IN IF ~HasCol(df, SOURCE_FILENAME_COL)
     THEN IF HasCol(df, ORIGINAL_CONTRACT_NUMBER_COL)
          \* get_loc is 0-based: get_loc + 1 is the 1-based position
          THEN InsertColumn(df, ColLoc(df.cols, ORIGINAL_CONTRACT_NUMBER_COL), SOURCE_FILENAME_COL, v)
          ELSE SetColumn(df, SOURCE_FILENAME_COL, [i \in Rows(df) |-> v])
     ELSE SetColumn(df, SOURCE_FILENAME_COL, [i \in Rows(df) |-> v])

\* Lines 620-623
cosign_detected(df) ==
  /\ HasCol(df, AGENT_NUMBER_COL)
  /\ \E i \in Rows(df) : StrUpper(StrOf(df.rows[i][AGENT_NUMBER_COL])) = "COSIGN"

\* cosign_clear_pii clearing the property columns on every row of the file
cosign_clear_pii_all_rows(df) ==
  [df EXCEPT !.rows = [i \in Rows(df) |->
     [c \in DOMAIN df.rows[i] |->
        IF c \in Range(COSIGN_PII_COLUMNS) THEN PyStr("") ELSE df.rows[i][c]]]]

\* Lines 629-639: every property column is cast to str, then cleared on the COSIGN rows
cosign_clear_pii(df) ==
  LET cosign_mask == {i \in Rows(df) : StrUpper(StrOf(df.rows[i][AGENT_NUMBER_COL])) = "COSIGN"}
      present == Range(COSIGN_PII_COLUMNS) \cap Range(df.cols)
  IN [df EXCEPT !.rows = [i \in Rows(df) |->
        [c \in DOMAIN df.rows[i] |->
           IF c \in present
           THEN (IF i \in cosign_mask THEN PyStr("") ELSE AsStr(df.rows[i][c]))
           ELSE df.rows[i][c]]]]

\* cosign_reorder moving Source_Filename to the front of the columns
cosign_reorder_to_front(df) ==
  IF HasCol(df, SOURCE_FILENAME_COL) /\ HasCol(df, INCOMING_CLIENT_FILENAME_COL)
       /\ ColLoc(df.cols, SOURCE_FILENAME_COL) > ColLoc(df.cols, INCOMING_CLIENT_FILENAME_COL)
  THEN Reindex(df, ListInsert(ListRemoveAt(df.cols, ColLoc(df.cols, SOURCE_FILENAME_COL) - 1),
                              0, SOURCE_FILENAME_COL))
  ELSE df

\* Lines 650-677
cosign_reorder(df) ==
  IF HasCol(df, SOURCE_FILENAME_COL) /\ HasCol(df, INCOMING_CLIENT_FILENAME_COL)
  THEN LET source_filename_idx == ColLoc(df.cols, SOURCE_FILENAME_COL) - 1
           incoming_client_filename_idx == ColLoc(df.cols, INCOMING_CLIENT_FILENAME_COL) - 1
       IN IF source_filename_idx > incoming_client_filename_idx
          THEN Reindex(df, ListInsert(ListRemoveAt(df.cols, source_filename_idx),
                                      incoming_client_filename_idx, SOURCE_FILENAME_COL))
          ELSE df
  ELSE df

\* Lines 618-681
cosign_processing(df) ==
  IF cosign_detected(df) THEN The({cosign_reorder(cleared) : cleared \in {cosign_clear_pii(df)}})
  ELSE df

\* Lines 684-693
handle_client_action(df) ==
  IF ~HasCol(df, CLIENT_ACTION_COL)
  THEN IF HasCol(df, ERROR_MESSAGE_COL)
       THEN InsertColumn(df, ColLoc(df.cols, ERROR_MESSAGE_COL), CLIENT_ACTION_COL, PyStr(""))
       ELSE SetColumn(df, CLIENT_ACTION_COL, [i \in Rows(df) |-> PyStr("")])
  ELSE df

\* general_pii_removal without its step: the frame goes on as it is
general_pii_removal_skipped(df, remove_pii) == df

\* Lines 702-724
general_pii_removal(df, remove_pii) ==
  IF remove_pii
  THEN [df EXCEPT !.rows = [i \in Rows(df) |->
          [c \in DOMAIN df.rows[i] |->
             IF c \in Range(pii_columns_customer) THEN PyStr("") ELSE df.rows[i][c]]]]
  ELSE df

\* Lines 727-728
cast_to_str(df) ==
  [df EXCEPT !.rows = [i \in Rows(df) |-> [c \in DOMAIN df.rows[i] |-> AsStr(df.rows[i][c])]]]

\* Line 732: df.replace("nan", "", regex=True)
replace_nan(df) ==
  [df EXCEPT !.rows = [i \in Rows(df) |->
     [c \in DOMAIN df.rows[i] |->
        IF df.rows[i][c].t = "str" THEN PyStr(RegexRemoveNan(df.rows[i][c].s))
        ELSE df.rows[i][c]]]]

NoFrame == [cols |-> <<>>, rows |-> <<>>]
NoEngine == EngineResult(NoFrame, FALSE, FALSE, {}, FALSE, {}, {}, <<>>)

\* What one call of process_csv_file did: error is the ValueError raised (""
\* when the function returns) and df the returned frame; the other fields keep
\* the frame as it was read (read), after the source filename step (named), as
\* it went into the error mapping (ack_df), what the error mapping did (eng,
\* mapped: whether it was called), and the frame before the final cast and
\* replace (scrubbed).
RunRecord(error, file, read, named, ack_df, mapped, eng, scrubbed, df) ==
  [error |-> error, file |-> file, read |-> read, named |-> named, ack_df |-> ack_df,
   mapped |-> mapped, eng |-> eng, scrubbed |-> scrubbed, df |-> df]

\* Lines 700-734
scrub_and_cast(file, read, named, ack_df, mapped, eng, remove_pii) ==
  The({RunRecord("", file, read, named, ack_df, mapped, eng, scrubbed,
                 The({replace_nan(cast) : cast \in {cast_to_str(scrubbed)}})) :
         scrubbed \in {general_pii_removal(IF mapped THEN eng.df ELSE ack_df, remove_pii)}})

\* Lines 695-698
map_errors(file, read, named, ack_df, remove_pii, error_mapping_df) ==
  The({scrub_and_cast(file, read, named, ack_df, error_mapping_df.loaded, eng, remove_pii) :
         eng \in {IF error_mapping_df.loaded THEN apply_error_mapping(ack_df, error_mapping_df)
                  ELSE NoEngine}})

\* Lines 618-693
cosign_and_client_action(file, read, named, remove_pii, error_mapping_df) ==
  The({map_errors(file, read, named, ack_df, remove_pii, error_mapping_df) :
         ack_df \in {The({handle_client_action(c) : c \in {cosign_processing(named)}})}})

\* Lines 557-616
drop_and_name(file, read, global_source_filename, remove_pii, error_mapping_df) ==
  The({cosign_and_client_action(file, read, named, remove_pii, error_mapping_df) :
         named \in {The({handle_source_filename(d, global_source_filename) :
                           d \in {drop_general(read)}})}})

process_csv_file(file, global_source_filename, remove_pii, error_mapping_df) ==
  IF file.kind = "blank"
  THEN RunRecord("EmptyFile", file, NoFrame, NoFrame, NoFrame, FALSE, NoEngine, NoFrame, NoFrame)
  ELSE The({IF validate_frame(parsed) # ""
            THEN RunRecord(validate_frame(parsed), file, NoFrame, NoFrame, NoFrame, FALSE,
                           NoEngine, NoFrame, NoFrame)
            ELSE drop_and_name(file, parsed.df, global_source_filename, remove_pii,
                               error_mapping_df) :
              parsed \in {read_csv(file)}})

(***************************************************************************)
(* generate_filename                                                       *)
(***************************************************************************)
RECURSIVE JoinWith(_, _)
\* sep.join(q)
JoinWith(q, sep) ==
  IF Len(q) = 0 THEN ""
  ELSE IF Len(q) = 1 THEN q[1]
  ELSE q[1] \o sep \o JoinWith(Tail(q), sep)

\* list(dict.fromkeys(q)): the first occurrence of every element, in order
FromKeys(q) == SeqSelectIdx(q, 1, {i \in DOMAIN q : \A j \in 1..(i - 1) : q[j] # q[i]})

\* Series.dropna().empty
AllNaN(df, c) == \A i \in Rows(df) : IsNaN(df.rows[i][c])

\* [v for v in q if str(v).strip()]
NonBlank(q) == SeqFilter(q, {v \in Range(q) : StrStrip(StrOf(v)) # ""})

\* Lines 752-759: None (not given) or the joined agents
agent_number_of(df) ==
  IF HasCol(df, AGENT_NUMBER_COL) /\ ~AllNaN(df, AGENT_NUMBER_COL)
  THEN The({[given |-> TRUE,
             text |-> JoinWith([k \in DOMAIN kept |-> StrStrip(StrOf(kept[k]))], "_")] :
              kept \in {NonBlank(UniqueCells(df, AGENT_NUMBER_COL, Rows(df)))}})
  ELSE [given |-> FALSE, text |-> ""]

\* Lines 761-773: None, the joined reason texts, or a raise out of
\* get_transaction_reason_text
transaction_reason_text_of(df) ==
  IF HasCol(df, TRANSACTION_REASON_COL) /\ ~AllNaN(df, TRANSACTION_REASON_COL)
  THEN The({IF \E k \in DOMAIN texts : texts[k].raised
            THEN [given |-> FALSE, raised |-> TRUE, text |-> ""]
            ELSE [given |-> TRUE, raised |-> FALSE,
                  text |-> JoinWith(FromKeys([k \in DOMAIN texts |-> texts[k].text]), "_")] :
              texts \in {The({[k \in DOMAIN unique_reasons |->
                                 get_transaction_reason_text(unique_reasons[k])] :
                               unique_reasons \in
                                 {NonBlank(UniqueCells(df, TRANSACTION_REASON_COL, Rows(df)))}})}})
  ELSE [given |-> FALSE, raised |-> FALSE, text |-> ""]

\* [raised, name]: the processed filename, or the ValueError of the translator
generate_filename(df, output_year, output_month, uploaded_file_name) ==
  The({IF reasons.raised THEN [raised |-> TRUE, name |-> ""]
       ELSE IF agents.given /\ agents.text # "" /\ reasons.given /\ reasons.text # ""
       THEN [raised |-> FALSE,
             name |-> "Ack_" \o agents.text \o "_" \o output_year \o "_" \o output_month
                       \o "_" \o reasons.text \o CSV_EXTENSION]
       ELSE [raised |-> FALSE,
             name |-> "Ack_processed_" \o output_year \o "_" \o output_month \o "_"
                       \o uploaded_file_name] :
         agents \in {agent_number_of(df)}, reasons \in {transaction_reason_text_of(df)}})

(***************************************************************************)
(* The uploads the model draws from. A scenario fixes the family of ack     *)
(* files, mapping files and settings one run of the script is given.       *)
(***************************************************************************)
MaxRows == 2
MaxRules == 2
MaxCols == 3

SeqsUpTo(S, n) == UNION {[1..k -> S] : k \in 1..n}

\* The texts a cell of column c takes in the uploaded ack files.
CellTexts(c) ==
  CASE c = ERROR_TYPE_COL -> {"E1", ""}
    [] c = IS_ERROR_COL -> {"true", "no"}
    [] c = TRANSACTION_REASON_COL -> {"1", "S|", "^"}
    [] c = COMPOSITE_KEY_COL -> {"k"}
    [] c = AGENT_NUMBER_COL -> {"cosign", "A1"}
    [] c = ERROR_MESSAGE_COL -> {"banana", ""}
    [] c = SOURCE_FILENAME_COL -> {"old"}
    [] c = PROPERTY_ADDRESS_COL -> {"12 Main", ""}
    [] c = PROPERTY_ZIP_COL -> {"30301", ""}
    [] c = CUSTOMER_FIRST_NAME_COL -> {"Ann", ""}
    [] OTHER -> {"x"}

RowsOver(header) ==
  {r \in [Range(header) -> UNION {CellTexts(c) : c \in Range(header)}] :
     \A c \in Range(header) : r[c] \in CellTexts(c)}

CsvFiles(headers, maxrows) ==
  UNION {{[name |-> "ack.csv", kind |-> "csv", cols |-> h, rows |-> rs] :
            rs \in SeqsUpTo(RowsOver(h), maxrows)} : h \in headers}

\* the columns the error mapping reads, with and without Transaction_Reason
EngineHeaders ==
  {<<ERROR_TYPE_COL, IS_ERROR_COL, TRANSACTION_REASON_COL>>,
   <<ERROR_TYPE_COL, IS_ERROR_COL>>}

\* a file without isError, a file without Error_Type, and a file with a
\* column of its own named composite_key
SchemaHeaders ==
  {<<ERROR_TYPE_COL, TRANSACTION_REASON_COL>>,
   <<IS_ERROR_COL, TRANSACTION_REASON_COL>>,
   <<ERROR_TYPE_COL, IS_ERROR_COL, TRANSACTION_REASON_COL, COMPOSITE_KEY_COL>>}

LayoutCols ==
  {ORIGINAL_CONTRACT_NUMBER_COL, SOURCE_FILENAME_COL, INCOMING_CLIENT_FILENAME_COL,
   AGENT_NUMBER_COL, ERROR_MESSAGE_COL, TRANSFER_FLAG_COL}
\* every ordering of every 1..MaxCols of the layout columns
LayoutHeaders ==
  {h \in SeqsUpTo(LayoutCols, MaxCols) : \A i, j \in DOMAIN h : i # j => h[i] # h[j]}

\* a file that is refused before any step: blank content, content with no
\* column, content the parser rejects, a header line with no data line
RefusedFiles ==
  {[name |-> "ack.csv", kind |-> k, cols |-> <<>>, rows |-> <<>>] :
     k \in {"blank", "nocolumns", "malformed"}}
  \cup {[name |-> "ack.csv", kind |-> "csv", cols |-> <<ERROR_MESSAGE_COL>>, rows |-> <<>>]}

\* files with property and customer columns, with and without Agent_Number
PiiHeaders ==
  {<<AGENT_NUMBER_COL, PROPERTY_ADDRESS_COL, PROPERTY_ZIP_COL, CUSTOMER_FIRST_NAME_COL>>,
   <<PROPERTY_ADDRESS_COL, CUSTOMER_FIRST_NAME_COL>>,
   <<ERROR_TYPE_COL, IS_ERROR_COL, CUSTOMER_FIRST_NAME_COL, AGENT_NUMBER_COL>>}

\* files whose agents and reasons the output's name is made of
NamingHeaders ==
  {<<AGENT_NUMBER_COL, TRANSACTION_REASON_COL>>, <<AGENT_NUMBER_COL>>,
   <<TRANSACTION_REASON_COL>>}
NamingTexts(c) ==
  IF c = AGENT_NUMBER_COL THEN {"A1", "A2", ""} ELSE {"1", "5", "7", "", "^"}
NamingFiles ==
  UNION {{[name |-> "ack.csv", kind |-> "csv", cols |-> h, rows |-> rs] :
            rs \in SeqsUpTo({r \in [Range(h) -> UNION {NamingTexts(c) : c \in Range(h)}] :
                               \A c \in Range(h) : r[c] \in NamingTexts(c)}, MaxRows)} :
           h \in NamingHeaders}

\* files the pipeline is run on twice: layouts in which Source_Filename is
\* appended, inserted or found, with and without a COSIGN agent, and files
\* the error mapping runs on
RepassHeaders ==
  {<<INCOMING_CLIENT_FILENAME_COL, AGENT_NUMBER_COL>>,
   <<ORIGINAL_CONTRACT_NUMBER_COL, INCOMING_CLIENT_FILENAME_COL, AGENT_NUMBER_COL>>,
   <<AGENT_NUMBER_COL, INCOMING_CLIENT_FILENAME_COL, SOURCE_FILENAME_COL>>,
   <<TRANSFER_FLAG_COL, ERROR_MESSAGE_COL, AGENT_NUMBER_COL>>,
   <<ERROR_TYPE_COL, IS_ERROR_COL, CLIENT_ACTION_COL>>,
   <<ERROR_TYPE_COL, IS_ERROR_COL, TRANSACTION_REASON_COL, COMPOSITE_KEY_COL>>}
RepassTexts(c) ==
  IF c = AGENT_NUMBER_COL THEN {"cosign", "cosnanign", "A1"} ELSE CellTexts(c)
RepassFiles ==
  UNION {{[name |-> "ack.csv", kind |-> "csv", cols |-> h, rows |-> rs] :
            rs \in SeqsUpTo({r \in [Range(h) -> UNION {RepassTexts(c) : c \in Range(h)}] :
                               \A c \in Range(h) : r[c] \in RepassTexts(c)}, MaxRows)} :
           h \in RepassHeaders}

\* the files the mapping loader's tables are applied to
LoaderAckHeaders ==
  {<<ERROR_TYPE_COL, IS_ERROR_COL>>, <<ERROR_TYPE_COL, IS_ERROR_COL, CLIENT_ACTION_COL>>}

AckFiles(sc) ==
  CASE sc = "engine" -> CsvFiles(EngineHeaders, MaxRows)
    [] sc = "schema" -> CsvFiles(SchemaHeaders, MaxRows)
    [] sc = "loader" -> CsvFiles(LoaderAckHeaders, MaxRows)
    [] sc = "pii" -> CsvFiles(PiiHeaders, MaxRows)
    [] sc = "naming" -> NamingFiles
    [] sc = "repass" -> RepassFiles
    [] sc = "batch" -> CsvFiles({<<ERROR_TYPE_COL, IS_ERROR_COL, TRANSACTION_REASON_COL>>}, 1)
                         \cup RefusedFiles
    [] OTHER -> CsvFiles(LayoutHeaders, MaxRows) \cup RefusedFiles

\* Mapping files: rule j maps to Client_Error_Type "M<j>" and Client Action "A<j>".
MappingHeaders ==
  {<<MAP_ERROR_TYPE, MAP_FILE_TYPE_2, MAP_CLIENT_ERROR_TYPE, MAP_CLIENT_ACTION>>,
   <<MAP_ERROR_TYPE, MAP_CLIENT_ERROR_TYPE, MAP_CLIENT_ACTION>>}
\* <<Error_Type, file_type_2>> of a rule
RuleKeys(sc, header) ==
  IF ~SeqContains(header, MAP_FILE_TYPE_2) THEN {<<"E1", "">>, <<"E1|S", "">>}
  ELSE IF sc = "engine" THEN {<<"E1", "Sales">>, <<"E1", "">>, <<"E1|S", "">>}
  ELSE {<<"E1", "Sales">>, <<"E1", "">>}
MappingRow(header, j, et, ft) ==
  [c \in Range(header) |->
     CASE c = MAP_ERROR_TYPE -> et
       [] c = MAP_FILE_TYPE_2 -> ft
       [] c = MAP_CLIENT_ERROR_TYPE -> "M" \o ToString(j)
       [] OTHER -> "A" \o ToString(j)]
MappingRowSeqs(sc, header) ==
  {[j \in DOMAIN q |-> MappingRow(header, j, q[j][1], q[j][2])] :
     q \in SeqsUpTo(RuleKeys(sc, header), MaxRules)}
\* Raw mapping uploads: cells with surrounding whitespace, blank Error_Type
\* cells, repeated rows, and headers that lack a required column.
RawMappingHeaders ==
  {<<MAP_ERROR_TYPE, MAP_CLIENT_ERROR_TYPE, MAP_CLIENT_ACTION>>,
   <<MAP_ERROR_TYPE, MAP_FILE_TYPE_2, MAP_CLIENT_ERROR_TYPE, MAP_CLIENT_ACTION>>,
   <<MAP_ERROR_TYPE, MAP_CLIENT_ERROR_TYPE>>,
   <<MAP_ERROR_TYPE, MAP_CLIENT_ACTION>>,
   <<MAP_CLIENT_ERROR_TYPE, MAP_CLIENT_ACTION>>}
RawCellTexts(c) ==
  CASE c = MAP_ERROR_TYPE -> {"E1", "E1 ", " "}
    [] c = MAP_FILE_TYPE_2 -> {"Sales"}
    [] c = MAP_CLIENT_ERROR_TYPE -> {"M1", "M2"}
    [] OTHER -> {"A1"}
RawMappingRows(header) ==
  {r \in [Range(header) -> UNION {RawCellTexts(c) : c \in Range(header)}] :
     \A c \in Range(header) : r[c] \in RawCellTexts(c)}
RawMappingFiles ==
  UNION {{[name |-> "map.csv", kind |-> "csv", cols |-> h, rows |-> rs] :
            rs \in SeqsUpTo(RawMappingRows(h), MaxRules)} : h \in RawMappingHeaders}

FullMappingHeader ==
  <<MAP_ERROR_TYPE, MAP_FILE_TYPE_2, MAP_CLIENT_ERROR_TYPE, MAP_CLIENT_ACTION>>

MappingFiles(sc) ==
  CASE sc = "loader" -> RawMappingFiles
    [] sc = "pii" ->
         {[name |-> "map.csv", kind |-> "csv", cols |-> FullMappingHeader,
           rows |-> <<MappingRow(FullMappingHeader, 1, "E1", "")>>]}
    [] sc \in {"batch", "repass"} ->
         {[name |-> "map.csv", kind |-> "csv", cols |-> FullMappingHeader, rows |-> rs] :
            rs \in {<<MappingRow(FullMappingHeader, 1, "E1", "Sales")>>,
                    <<MappingRow(FullMappingHeader, 1, "E1", "Sales"),
                      MappingRow(FullMappingHeader, 2, "E1", "")>>}}
    [] sc = "engine" ->
         UNION {{[name |-> "map.csv", kind |-> "csv", cols |-> h, rows |-> rs] :
                   rs \in MappingRowSeqs(sc, h)} : h \in MappingHeaders}
    [] sc = "schema" ->
         {[name |-> "map.csv", kind |-> "csv", cols |-> h, rows |-> rs] :
            h \in {<<MAP_ERROR_TYPE, MAP_FILE_TYPE_2, MAP_CLIENT_ERROR_TYPE, MAP_CLIENT_ACTION>>},
            rs \in MappingRowSeqs(sc, <<MAP_ERROR_TYPE, MAP_FILE_TYPE_2, MAP_CLIENT_ERROR_TYPE,
                                        MAP_CLIENT_ACTION>>)}
    \* a mapping file without its Client Action column
    [] OTHER ->
         {[name |-> "map.csv", kind |-> "csv",
           cols |-> <<MAP_ERROR_TYPE, MAP_CLIENT_ERROR_TYPE>>, rows |-> <<>>]}

\* Lines 984-990: the month and the year of the output names
Years(sc) == IF sc = "naming" THEN {"2025", "2026"} ELSE {"2025"}
Months(sc) == IF sc = "naming" THEN {"01", "12"} ELSE {"01"}
SourceFilenames(sc) ==
  CASE sc = "layout" -> {"", "B1", "finance"} [] sc = "repass" -> {"", "B1"} [] OTHER -> {""}
PiiChoices(sc) == IF sc = "pii" THEN BOOLEAN ELSE {FALSE}
\* the files one run of the script loops over
MaxBatch == 2
BatchSize(sc) == IF sc = "batch" THEN MaxBatch ELSE 1

(***************************************************************************)
(* The script: the settings and the mapping upload are read, then the      *)
(* loop processes the uploaded files one after the other.                  *)
(***************************************************************************)
VARIABLES scenario, pc, global_source_filename, remove_pii, output_year, output_month,
          \* the uploaded mapping file (NoUpload for none) and what the loader made of it
          error_mapping_file, error_mapping_df, last, processed_data, n_failed,
          \* the uploaded files the loop has gone through, in order
          uploaded_files,
          \* one call of get_transaction_reason_text: its argument and what it gave
          code, reason_text

settings == <<global_source_filename, remove_pii, output_year, output_month>>
script_vars == <<scenario, pc, settings, error_mapping_file, error_mapping_df, last, processed_data, n_failed,
                 uploaded_files>>
vars == <<script_vars, code, reason_text>>

\* no call of get_transaction_reason_text has returned or raised
NotCalled == [called |-> FALSE, raised |-> FALSE, text |-> ""]

NoUpload == [name |-> "", kind |-> "none", cols |-> <<>>, rows |-> <<>>]

\* Lines 1234-1242: what one iteration of the loop did: the record of
\* process_csv_file, whether generate_filename raised, and the name it gave.
LoopRecord(run, named) ==
  run @@ [name_raised |-> named.raised, processed_filename |-> named.name]

NoRun ==
  LoopRecord(process_csv_file([name |-> "", kind |-> "blank", cols |-> <<>>, rows |-> <<>>],
                              "", FALSE, None),
             [raised |-> FALSE, name |-> ""])

InitScript(sc) ==
  /\ scenario = sc
  /\ pc = "settings"
  /\ global_source_filename \in SourceFilenames(sc)
  /\ remove_pii \in PiiChoices(sc)
  /\ output_year \in Years(sc)
  /\ output_month \in Months(sc)
  /\ error_mapping_file = NoUpload
  /\ error_mapping_df = None
  /\ last = NoRun
  /\ processed_data = <<>>
  /\ n_failed = 0
  /\ uploaded_files = <<>>

InitOf(sc) ==
  /\ InitScript(sc)
  /\ code = PyStr("")
  /\ reason_text = NotCalled

\* Lines 866-876: a mapping file is uploaded and loaded (None on a load error).
LoadMapping ==
  /\ pc = "settings"
  /\ \E f \in MappingFiles(scenario) :
       /\ error_mapping_file' = f
       /\ error_mapping_df' = load_error_mapping_file(f)
  /\ pc' = "files"
  /\ UNCHANGED <<scenario, settings, last, processed_data, n_failed, uploaded_files,
                 code, reason_text>>

\* Lines 874-875: no mapping file is uploaded.
NoMapping ==
  /\ pc = "settings"
  /\ error_mapping_file' = NoUpload
  /\ error_mapping_df' = None
  /\ pc' = "files"
  /\ UNCHANGED <<scenario, settings, last, processed_data, n_failed, uploaded_files,
                 code, reason_text>>

\* the engine working on the caller's table itself
mapping_df_shared(mapping_df) == [df |-> mapping_df, shared |-> TRUE]

\* Line 360: mapping_df_clean = mapping_df.copy(), a table of its own
mapping_df_clean(mapping_df) == [df |-> mapping_df, shared |-> FALSE]

\* Lines 372-376: the caller's table once apply_error_mapping has returned.
\* The composite_key column is assigned to mapping_df_clean when strategy 1
\* is entered; it shows in the caller's table only if the two are one object.
mapping_df_after_call(mapping_df, eng) ==
  IF mapping_df_clean(mapping_df).shared /\ eng.tier1
  THEN [mapping_df EXCEPT
          !.cols = IF SeqContains(mapping_df.cols, COMPOSITE_KEY_COL) THEN mapping_df.cols
                   ELSE Append(mapping_df.cols, COMPOSITE_KEY_COL),
          !.rows = [j \in DOMAIN mapping_df.rows |->
                      [c \in DOMAIN mapping_df.rows[j] \cup {COMPOSITE_KEY_COL} |->
                         IF c = COMPOSITE_KEY_COL THEN mapping_composite_keys(mapping_df)[j]
                         ELSE mapping_df.rows[j][c]]]]
  ELSE mapping_df

\* Lines 1230-1265, one pass of the loop, on the uploaded file f
LoopBody(f) ==
  \E run \in {process_csv_file(f, global_source_filename, remove_pii, error_mapping_df)} :
    \E named \in {IF run.error = ""
                   THEN generate_filename(run.df, output_year, output_month, f.name)
                   ELSE [raised |-> FALSE, name |-> ""]} :
      /\ last' = LoopRecord(run, named)
      /\ uploaded_files' = Append(uploaded_files, f)
      /\ processed_data' =
           IF run.error = "" /\ ~named.raised
           THEN Append(processed_data, [filename |-> named.name, data |-> run.df])
           ELSE processed_data
      /\ n_failed' = IF run.error = "" /\ ~named.raised THEN n_failed ELSE n_failed + 1
      /\ error_mapping_df' = IF run.mapped THEN mapping_df_after_call(error_mapping_df, run.eng)
                             ELSE error_mapping_df

\* Lines 1229-1265: one iteration of the file loop. An exception out of
\* process_csv_file or generate_filename is caught and the loop goes on to
\* the next file.
ProcessFile ==
  /\ pc = "files"
  /\ Len(processed_data) + n_failed < BatchSize(scenario)
  /\ \E f \in AckFiles(scenario) : LoopBody(f)
  /\ UNCHANGED <<scenario, pc, settings, error_mapping_file, code, reason_text>>

Next == LoadMapping \/ NoMapping \/ ProcessFile

Init == InitOf("engine")
Spec == Init /\ [][Next]_vars

InitSchema == InitOf("schema")
SpecSchema == InitSchema /\ [][Next]_vars

InitLoader == InitOf("loader")
SpecLoader == InitLoader /\ [][Next]_vars

InitBatch == InitOf("batch")
SpecBatch == InitBatch /\ [][Next]_vars

InitPii == InitOf("pii")
SpecPii == InitPii /\ [][Next]_vars

InitNaming == InitOf("naming")
SpecNaming == InitNaming /\ [][Next]_vars

\* Line 1245: df.to_csv(index=False) of a processed file, as the upload it
\* is when the user runs the script on it; every cell is a string by then
to_csv(processed) ==
  [name |-> processed.filename, kind |-> "csv", cols |-> processed.data.cols,
   rows |-> [i \in DOMAIN processed.data.rows |->
               [c \in Range(processed.data.cols) |-> processed.data.rows[i][c].s]]]

\* The script is run again, with the same settings and mapping table, on the
\* file the first run produced.
ProcessOutput ==
  /\ pc = "files"
  /\ Len(uploaded_files) = 1 /\ Len(processed_data) = 1
  /\ LoopBody(to_csv(processed_data[1]))
  /\ UNCHANGED <<scenario, pc, settings, error_mapping_file, code, reason_text>>

NextRepass == LoadMapping \/ NoMapping \/ ProcessFile \/ ProcessOutput
InitRepass == InitOf("repass")
SpecRepass == InitRepass /\ [][NextRepass]_vars

InitLayout == InitOf("layout")
SpecLayout == InitLayout /\ [][Next]_vars

(***************************************************************************)
(* get_transaction_reason_text on its own: the codes are the values a cell *)
(* of Transaction_Reason takes after read_csv (int, float, bool, str, NaN) *)
(* and after the cast to str. "^" stands for a digit character outside     *)
(* 0-9 that int() rejects, such as a superscript two.                      *)
(***************************************************************************)
MaxCode == 15

Codes ==
  {PyInt(n) : n \in 0..MaxCode} \cup {PyStr(ToString(n)) : n \in 0..MaxCode}
    \cup {PyFloatOfInt(n) : n \in 0..MaxCode}
    \cup {PyStr(t) : t \in {"X", "", "^", "1^", " 1", "1.0", "Sales"}}
    \cup {PyBool(TRUE), PyBool(FALSE), NaN}

InitTranslate ==
  /\ InitScript("translate")
  /\ code \in Codes
  /\ reason_text = NotCalled

\* Lines 315-318: the call returns its text or raises.
Translate ==
  /\ ~reason_text.called
  /\ \E t \in {get_transaction_reason_text(code)} :
       reason_text' = [called |-> TRUE, raised |-> t.raised, text |-> t.text]
  /\ UNCHANGED <<script_vars, code>>

NextTranslate == Translate
SpecTranslate == InitTranslate /\ [][NextTranslate]_vars


(***************************************************************************)
(* The properties, stated over the record of the last processed file.      *)
(* The rule a dictionary lookup answers with is the last rule of the table *)
(* carrying the key.                                                       *)
(***************************************************************************)
EngineCalled == last.error = "" /\ last.mapped
EngineIn == last.ack_df
EngineOut == last.eng.df

IsErrorRow(i) ==
  HasCol(EngineIn, IS_ERROR_COL) /\ StrUpper(StrOf(EngineIn.rows[i][IS_ERROR_COL])) = "TRUE"

\* translate(Transaction_Reason) of row i: the text of the table, else str(code)
ReasonTextOfRow(i) ==
  LET reason == EngineIn.rows[i][TRANSACTION_REASON_COL]
      t == get_transaction_reason_text(reason)
  IN IF t.raised THEN StrOf(reason) ELSE t.text

\* the rules of the composite index (non-empty file_type_2) whose key is row i's
CompositeRules(i) ==
  IF HasCol(EngineIn, TRANSACTION_REASON_COL) /\ SeqContains(error_mapping_df.cols, MAP_FILE_TYPE_2)
  THEN {j \in DOMAIN error_mapping_df.rows :
          /\ error_mapping_df.rows[j][MAP_FILE_TYPE_2] # ""
          /\ error_mapping_df.rows[j][MAP_ERROR_TYPE] \o "|" \o error_mapping_df.rows[j][MAP_FILE_TYPE_2]
               = StrOf(EngineIn.rows[i][ERROR_TYPE_COL]) \o "|" \o ReasonTextOfRow(i)}
  ELSE {}

\* the rules of the simple index whose key is row i's original Error_Type
SimpleRules(i) ==
  {j \in DOMAIN error_mapping_df.rows :
     /\ EngineIn.rows[i][ERROR_TYPE_COL].t = "str"
     /\ error_mapping_df.rows[j][MAP_ERROR_TYPE] = EngineIn.rows[i][ERROR_TYPE_COL].s}

LastRule(S) == CHOOSE j \in S : \A k \in S : k <= j

\* row i of the returned record set carries the values of rule j
RewrittenBy(i, j) ==
  /\ EngineOut.rows[i][ERROR_TYPE_COL] = PyStr(error_mapping_df.rows[j][MAP_CLIENT_ERROR_TYPE])
  /\ HasCol(EngineIn, CLIENT_ACTION_COL) =>
       /\ HasCol(EngineOut, CLIENT_ACTION_COL)
       /\ EngineOut.rows[i][CLIENT_ACTION_COL] = PyStr(error_mapping_df.rows[j][MAP_CLIENT_ACTION])

\* C1: every error row whose composite key is in the composite index and whose
\* Error_Type is in the simple index is returned with the composite rule's
\* client error type and client action.
C1_TierPrecedence ==
  EngineCalled =>
    \A i \in Rows(EngineIn) :
      (IsErrorRow(i) /\ CompositeRules(i) # {} /\ SimpleRules(i) # {})
        => RewrittenBy(i, LastRule(CompositeRules(i)))

\* C2: every error row not matched in tier 1 whose original Error_Type is a
\* key of the simple index is returned with the client error type and the
\* client action of the last rule carrying that original Error_Type.
C2_SimpleFallback ==
  (EngineCalled /\ ~last.eng.raised) =>
    \A i \in Rows(EngineIn) :
      (IsErrorRow(i) /\ CompositeRules(i) = {} /\ i \notin last.eng.error_mask
         /\ SimpleRules(i) # {})
        => RewrittenBy(i, LastRule(SimpleRules(i)))

\* C3: every row whose isError is "TRUE" without regard to case and whose key
\* Error_Type|translate(Transaction_Reason) is in the composite index is
\* returned with that rule's client error type and client action.
C3_CompositeOverwrite ==
  EngineCalled =>
    \A i \in Rows(EngineIn) :
      (IsErrorRow(i) /\ CompositeRules(i) # {}) => RewrittenBy(i, LastRule(CompositeRules(i)))

\* C4: every row whose isError is not "TRUE" has, in the returned record set,
\* the value of the input in every column of the input.
C4_NonErrorRowsUntouched ==
  EngineCalled =>
    \A i \in Rows(EngineIn) :
      ~IsErrorRow(i) =>
        \A k \in DOMAIN EngineIn.cols :
          /\ HasCol(EngineOut, EngineIn.cols[k])
          /\ EngineOut.rows[i][EngineIn.cols[k]] = EngineIn.rows[i][EngineIn.cols[k]]

\* C5: when a step of the error mapping fails, process_csv_file does not fail
\* with it and the error mapping returns the original record set: no rewrite
\* of either tier and no transient column in it.
C5_FailureFallback ==
  (last.mapped /\ last.eng.raised) =>
    /\ last.error = ""
    /\ EngineOut = EngineIn
    /\ ~HasCol(EngineOut, TRANSACTION_REASON_TEXT_COL)
    /\ ~HasCol(EngineOut, COMPOSITE_KEY_COL)

\* a failure of the report after a row was rewritten in the working copy
C5_FailureAfterRewrite ==
  /\ last.mapped /\ last.eng.raised
  /\ last.eng.mappings_applied > 0
  /\ last.eng.unmatched_errors # <<>>

\* C6: a row is matched in tier 1 only by a rule with a non-empty file_type_2;
\* a rule whose file_type_2 is empty is matched through the simple key only.
C6_CompositeIndexMembership ==
  (EngineCalled /\ ~last.eng.raised) =>
    \A i \in last.eng.error_mask : CompositeRules(i) # {}

InputHas(c) == SeqContains(last.file.cols, c)

\* C7: the final step replaces a cell by the empty string only when its whole
\* string value is "nan"; every other cell is returned as its string
\* representation, unchanged.
C7_WholeCellSentinel ==
  last.error = "" =>
    \A i \in Rows(last.df) : \A k \in DOMAIN last.df.cols :
      last.df.rows[i][last.df.cols[k]] =
        PyStr(IF StrOf(last.scrubbed.rows[i][last.df.cols[k]]) = "nan" THEN ""
              ELSE StrOf(last.scrubbed.rows[i][last.df.cols[k]]))

\* C8: every row of the output has Source_Filename equal to source_filename
\* followed by ".csv" for a non-empty source_filename, and to the empty
\* string for an empty one.
C8_SourceFilenameValue ==
  last.error = "" =>
    /\ HasCol(last.df, SOURCE_FILENAME_COL)
    /\ \A i \in Rows(last.df) :
         last.df.rows[i][SOURCE_FILENAME_COL] =
           PyStr(IF global_source_filename # "" THEN global_source_filename \o ".csv" ELSE "")

SourceFilenameInserted ==
  last.error = "" /\ ~InputHas(SOURCE_FILENAME_COL) /\ InputHas(ORIGINAL_CONTRACT_NUMBER_COL)

\* a row's Agent_Number is COSIGN and incoming_client_filename is to the left
\* of Original_Contract_Number in the input
CosignMovesSourceFilename ==
  /\ InputHas(AGENT_NUMBER_COL)
  /\ \E i \in DOMAIN last.file.rows : StrUpper(last.file.rows[i][AGENT_NUMBER_COL]) = "COSIGN"
  /\ InputHas(INCOMING_CLIENT_FILENAME_COL)
  /\ ColLoc(last.file.cols, INCOMING_CLIENT_FILENAME_COL)
       < ColLoc(last.file.cols, ORIGINAL_CONTRACT_NUMBER_COL)

\* C9 as stated: for every input without a Source_Filename column and with an
\* Original_Contract_Number column, the output has Source_Filename
\* immediately after Original_Contract_Number.
C9_SourceFilenameAfterContract ==
  SourceFilenameInserted =>
    /\ HasCol(last.df, SOURCE_FILENAME_COL)
    /\ ColLoc(last.df.cols, SOURCE_FILENAME_COL)
         = ColLoc(last.df.cols, ORIGINAL_CONTRACT_NUMBER_COL) + 1

\* C9: for every input without a Source_Filename column and with an
\* Original_Contract_Number column, the output has Source_Filename
\* immediately after Original_Contract_Number, unless a row's Agent_Number is
\* COSIGN and incoming_client_filename is to the left of
\* Original_Contract_Number: then Source_Filename is immediately before
\* incoming_client_filename.
C9_SourceFilenamePosition ==
  SourceFilenameInserted =>
    /\ HasCol(last.df, SOURCE_FILENAME_COL)
    /\ IF CosignMovesSourceFilename
       THEN ColLoc(last.df.cols, SOURCE_FILENAME_COL) + 1
              = ColLoc(last.df.cols, INCOMING_CLIENT_FILENAME_COL)
       ELSE ColLoc(last.df.cols, SOURCE_FILENAME_COL)
              = ColLoc(last.df.cols, ORIGINAL_CONTRACT_NUMBER_COL) + 1

\* Source_Filename was inserted after Original_Contract_Number and the COSIGN
\* step had nothing to move
C9_InsertedAfterContract ==
  /\ SourceFilenameInserted
  /\ InputHas(INCOMING_CLIENT_FILENAME_COL)
  /\ InputHas(AGENT_NUMBER_COL)
  /\ ~CosignMovesSourceFilename
  /\ ColLoc(last.df.cols, SOURCE_FILENAME_COL)
       = ColLoc(last.df.cols, ORIGINAL_CONTRACT_NUMBER_COL) + 1

\* C10: empty content, zero data rows and zero columns each refuse the file
\* before any step runs, with EmptyFile, NoDataRows and NoColumns.
C10_DistinctValidationErrors ==
  /\ last.file.kind = "blank" => last.error = "EmptyFile"
  /\ (last.file.kind = "csv" /\ Len(last.file.rows) = 0) => last.error = "NoDataRows"
  /\ last.file.kind = "nocolumns" => last.error = "NoColumns"
  /\ (last.file.kind \in {"blank", "nocolumns"}
        \/ (last.file.kind = "csv" /\ Len(last.file.rows) = 0))
       => (processed_data = <<>> /\ last.df = NoFrame)

\* C11: the table the loader returns has no two rows equal in every column.
C11_NoDuplicateRules ==
  error_mapping_df.loaded =>
    \A j, k \in DOMAIN error_mapping_df.rows :
      j # k => error_mapping_df.rows[j] # error_mapping_df.rows[k]

\* the codes the translator's table names: 1, 2, 3 and 5 as a number or as
\* its digit string
TableCode(c) ==
  \/ c.t = "int" /\ c.s \in {"1", "2", "3", "5"}
  \/ c.t = "str" /\ c.s \in {"1", "2", "3", "5"}
  \/ c.t = "float" /\ c.s \in {"1.0", "2.0", "3.0", "5.0"}
\* a number or a string
IsCode(c) == c.t \in {"int", "float", "str"}

\* C12: the translator returns a string for every number and every string and
\* never raises; a code that is not in its table is returned as its string form.
C12_TranslatorNeverFails ==
  (reason_text.called /\ IsCode(code)) =>
    /\ ~reason_text.raised
    /\ ~TableCode(code) => reason_text.text = StrOf(code)

\* C13: 1 and 5 give "Sales", 2 gives "Payments", 3 gives "Cancels", as an
\* integer or as its digit string; every other code gives its string form.
C13_TranslatorTable ==
  (reason_text.called /\ IsCode(code)) =>
    IF TableCode(code)
    THEN /\ ~reason_text.raised
         /\ reason_text.text = (CASE code.s \in {"1", "5", "1.0", "5.0"} -> "Sales"
                                  [] code.s \in {"2", "2.0"} -> "Payments"
                                  [] code.s \in {"3", "3.0"} -> "Cancels")
    ELSE ~reason_text.raised /\ reason_text.text = StrOf(code)

\* tier 1 has nothing to run on
TierOneAbsent ==
  ~SeqContains(error_mapping_df.cols, MAP_FILE_TYPE_2) \/ ~HasCol(EngineIn, TRANSACTION_REASON_COL)

\* C14: when the mapping table has no file_type_2 column or the record set no
\* Transaction_Reason column, every error row whose Error_Type is in the
\* simple index is rewritten by tier 2.
C14_TierTwoCoversAll ==
  (EngineCalled /\ TierOneAbsent) =>
    \A i \in Rows(EngineIn) :
      (IsErrorRow(i) /\ SimpleRules(i) # {}) =>
        EngineOut.rows[i][ERROR_TYPE_COL] =
          PyStr(error_mapping_df.rows[LastRule(SimpleRules(i))][MAP_CLIENT_ERROR_TYPE])

\* what file f yields when it is the only file processed, with the settings
\* and the mapping table of the run: <<>> or its one output
TransformAlone(f) == process_csv_file(f, global_source_filename, remove_pii, error_mapping_df)
OutputAlone(f) ==
  IF TransformAlone(f).error # "" THEN <<>>
  ELSE <<[filename |-> generate_filename(TransformAlone(f).df, output_year, output_month,
                                         f.name).name,
          data |-> TransformAlone(f).df]>>

RECURSIVE OutputsAlone(_)
OutputsAlone(files) ==
  IF Len(files) = 0 THEN <<>> ELSE OutputAlone(Head(files)) \o OutputsAlone(Tail(files))

\* C15: whatever files of the batch fail in their transform, every other file
\* yields exactly one output, the one it yields when processed alone, and a
\* file whose transform fails yields none.
C15_PerFileIsolation ==
  /\ Len(processed_data) + n_failed = Len(uploaded_files)
  /\ processed_data = OutputsAlone(uploaded_files)

\* the uploaded mapping file lacks Error_Type, Client_Error_Type or Client Action
MappingColumnsMissing ==
  /\ error_mapping_file.kind = "csv"
  /\ \E k \in DOMAIN required_cols : ~SeqContains(error_mapping_file.cols, required_cols[k])

\* the text a cell of the file is written with in the output: "" for an
\* absent value, else its string form
OutputText(v) == IF StrOf(v) = "nan" THEN "" ELSE StrOf(v)

\* C16: when the mapping file lacks a required column the loader produces no
\* table, and every ack file processed afterwards goes through the pipeline
\* with the error mapping skipped: its Error_Type and Client_Action are as in
\* the file (Client_Action empty when the file has none).
C16_LoadErrorDegrades ==
  MappingColumnsMissing =>
    /\ error_mapping_df = None
    /\ (uploaded_files # <<>> /\ Len(last.file.rows) > 0) =>
         /\ last.error = "" /\ ~last.mapped /\ Len(processed_data) = 1
         /\ HasCol(last.df, SOURCE_FILENAME_COL) /\ HasCol(last.df, CLIENT_ACTION_COL)
         /\ \A i \in Rows(last.df) :
              /\ last.df.rows[i][ERROR_TYPE_COL].s = OutputText(last.read.rows[i][ERROR_TYPE_COL])
              /\ last.df.rows[i][CLIENT_ACTION_COL].s =
                   (IF HasCol(last.read, CLIENT_ACTION_COL)
                    THEN OutputText(last.read.rows[i][CLIENT_ACTION_COL]) ELSE "")

\* an error row whose Error_Type a rule of the refused file names was
\* processed after the failed load
C16_ProcessedAfterFailedLoad ==
  /\ MappingColumnsMissing
  /\ SeqContains(error_mapping_file.cols, MAP_ERROR_TYPE)
  /\ uploaded_files # <<>> /\ last.error = ""
  /\ \E i \in Rows(last.read) : \E j \in DOMAIN error_mapping_file.rows :
       /\ StrUpper(StrOf(last.read.rows[i][IS_ERROR_COL])) = "TRUE"
       /\ StrStrip(error_mapping_file.rows[j][MAP_ERROR_TYPE]) = StrOf(last.read.rows[i][ERROR_TYPE_COL])

\* the frame the COSIGN step is given, and whether a row of it is a COSIGN row
IsCosignRow(i) ==
  HasCol(last.named, AGENT_NUMBER_COL)
    /\ StrUpper(StrOf(last.named.rows[i][AGENT_NUMBER_COL])) = "COSIGN"
CosignTriggered == last.error = "" /\ \E i \in Rows(last.named) : IsCosignRow(i)

\* C17: when the COSIGN step is triggered, every COSIGN row has the empty
\* string in each existing property column, and every other row of the file
\* keeps its value in those columns.
C17_CosignRowScoped ==
  CosignTriggered =>
    \A i \in Rows(last.named) : \A k \in DOMAIN COSIGN_PII_COLUMNS :
      HasCol(last.named, COSIGN_PII_COLUMNS[k]) =>
        IF IsCosignRow(i)
        THEN last.ack_df.rows[i][COSIGN_PII_COLUMNS[k]] = PyStr("")
        ELSE StrOf(last.ack_df.rows[i][COSIGN_PII_COLUMNS[k]])
               = StrOf(last.named.rows[i][COSIGN_PII_COLUMNS[k]])

\* a COSIGN row and a row of another agent that has a property address
C17_CosignBesideOtherAgent ==
  /\ CosignTriggered
  /\ HasCol(last.named, PROPERTY_ADDRESS_COL)
  /\ \E i, j \in Rows(last.named) :
       /\ IsCosignRow(i) /\ last.file.rows[i][PROPERTY_ADDRESS_COL] = "12 Main"
       /\ ~IsCosignRow(j) /\ last.ack_df.rows[j][PROPERTY_ADDRESS_COL] = PyStr("12 Main")

\* C18: with remove_pii every row of the output has the empty string in every
\* existing customer column, whatever the earlier steps did; without it the
\* step changes no cell.
C18_GeneralPiiScrub ==
  last.error = "" =>
    IF remove_pii
    THEN \A i \in Rows(last.df) : \A k \in DOMAIN pii_columns_customer :
           HasCol(last.df, pii_columns_customer[k]) =>
             last.df.rows[i][pii_columns_customer[k]] = PyStr("")
    ELSE last.scrubbed = (IF last.mapped THEN last.eng.df ELSE last.ack_df)

\* a file with a customer name went through the scrub and the error mapping
C18_NameScrubbed ==
  /\ last.error = "" /\ remove_pii /\ last.mapped /\ last.eng.mappings_applied > 0
  /\ HasCol(last.df, CUSTOMER_FIRST_NAME_COL)
  /\ \E i \in Rows(last.df) :
       last.file.rows[i][CUSTOMER_FIRST_NAME_COL] = "Ann"
         /\ last.df.rows[i][CUSTOMER_FIRST_NAME_COL] = PyStr("")

\* the text the translator's table gives a cell of the processed file
TableText(v) ==
  CASE v.s \in {"1", "5"} -> "Sales"
    [] v.s = "2" -> "Payments"
    [] v.s = "3" -> "Cancels"
    [] OTHER -> v.s
\* every ordering of the elements of S
Orderings(S) ==
  {q \in [1..Cardinality(S) -> S] : \A i, j \in DOMAIN q : i # j => q[i] # q[j]}
\* the distinct non-blank agents of the processed file, joined in some order
AgentsJoined ==
  IF HasCol(last.df, AGENT_NUMBER_COL)
  THEN {JoinWith(q, "_") :
          q \in Orderings({StrStrip(last.df.rows[i][AGENT_NUMBER_COL].s) : i \in Rows(last.df)}
                            \ {""})}
  ELSE {""}
\* the translated reasons of the non-blank cells, each once, in first-seen order
ReasonsJoined ==
  IF HasCol(last.df, TRANSACTION_REASON_COL)
  THEN LET cells == [i \in 1..Len(last.df.rows) |-> last.df.rows[i][TRANSACTION_REASON_COL]]
           texts == [i \in DOMAIN cells |-> TableText(cells[i])]
           kept == {i \in DOMAIN cells : StrStrip(cells[i].s) # ""}
           first == {i \in kept : \A j \in kept : j < i => texts[j] # texts[i]}
       IN JoinWith(SeqSelectIdx(texts, 1, first), "_")
  ELSE ""
ExpectedNames ==
  IF ReasonsJoined # "" /\ AgentsJoined # {""}
  THEN {"Ack_" \o a \o "_" \o output_year \o "_" \o output_month \o "_" \o ReasonsJoined
          \o ".csv" : a \in AgentsJoined}
  ELSE {"Ack_processed_" \o output_year \o "_" \o output_month \o "_"
          \o uploaded_files[Len(uploaded_files)].name}

\* C20: the name of a processed file is "Ack_" agents "_" year "_" month "_"
\* reasons ".csv" exactly when the joined distinct non-blank agents and the
\* joined translated reasons (each once, first seen first) are both non-empty,
\* and "Ack_processed_" year "_" month "_" and the uploaded name otherwise.
C20_OutputFileName ==
  last.error = "" => ~last.name_raised /\ last.processed_filename \in ExpectedNames

\* the pipeline has been run on the output of its first pass
Repassed == scenario = "repass" /\ Len(uploaded_files) = 2
FirstPass == processed_data[1].data

\* C19: the pipeline run on its own output, with the same configuration,
\* returns the column list of the first pass in the same order: no column is
\* dropped, and Client_Action and Source_Filename are neither inserted again
\* nor moved.
C19_StructureIdempotent ==
  Repassed => last.error = "" /\ last.df.cols = FirstPass.cols

\* the engine has nothing to work on: a required column is missing or no row
\* is an error row
NothingToMap ==
  \/ ~HasCol(EngineIn, ERROR_TYPE_COL)
  \/ ~HasCol(EngineIn, IS_ERROR_COL)
  \/ \A i \in Rows(EngineIn) : ~IsErrorRow(i)

\* C21: when the record set lacks Error_Type or isError, or has no error row,
\* the engine returns the columns and the cells of its input and reports no
\* mapped and no unmatched row.
C21_EngineSoftNoOp ==
  (EngineCalled /\ NothingToMap) =>
    /\ EngineOut = EngineIn
    /\ ~last.eng.raised
    /\ last.eng.mappings_applied = 0
    /\ last.eng.unmatched_errors = <<>>

\* a record set without error rows one of whose rows carries a rule's Error_Type
C21_RuleWithoutErrorRow ==
  /\ EngineCalled /\ HasCol(EngineIn, ERROR_TYPE_COL) /\ HasCol(EngineIn, IS_ERROR_COL)
  /\ \A i \in Rows(EngineIn) : ~IsErrorRow(i)
  /\ \E i \in Rows(EngineIn) : SimpleRules(i) # {}
  /\ EngineOut = EngineIn

\* the rules row i matches in tier 1 or in tier 2
MatchingRules(i) == CompositeRules(i) \cup SimpleRules(i)

\* row i is returned with the client error type of a rule of the table
Rewritten(i) ==
  \E j \in DOMAIN error_mapping_df.rows :
    EngineOut.rows[i][ERROR_TYPE_COL] = PyStr(error_mapping_df.rows[j][MAP_CLIENT_ERROR_TYPE])

\* C22: an error row that matches tier 1 or tier 2 is returned rewritten,
\* whatever the other rows of the record set are: also beside unmatched error
\* rows whose Error_Type is blank or not a text.
C22_MatchedRowRewritten ==
  EngineCalled =>
    \A i \in Rows(EngineIn) : (IsErrorRow(i) /\ MatchingRules(i) # {}) => Rewritten(i)

\* Source_Filename sits after incoming_client_filename when the COSIGN step starts
SourceFilenameAfterIncoming ==
  /\ HasCol(last.named, SOURCE_FILENAME_COL) /\ HasCol(last.named, INCOMING_CLIENT_FILENAME_COL)
  /\ ColLoc(last.named.cols, SOURCE_FILENAME_COL)
       > ColLoc(last.named.cols, INCOMING_CLIENT_FILENAME_COL)
\* the columns q without Source_Filename and without a Client_Action the
\* next step inserted
OtherColumns(q) ==
  SeqFilter(q, Range(q) \ ({SOURCE_FILENAME_COL}
                            \cup (IF HasCol(last.named, CLIENT_ACTION_COL) THEN {}
                                  ELSE {CLIENT_ACTION_COL})))
\* the columns after the COSIGN step
AfterCosignStep ==
  IF HasCol(last.named, CLIENT_ACTION_COL) THEN last.ack_df.cols
  ELSE SeqFilter(last.ack_df.cols, Range(last.ack_df.cols) \ {CLIENT_ACTION_COL})

\* C23: when a row is COSIGN and Source_Filename sits after
\* incoming_client_filename, the output has Source_Filename immediately before
\* incoming_client_filename, the other columns in their order, and every row
\* its cells outside the property columns; in every other case the step
\* leaves the column order as it is.
C23_CosignReorderExact ==
  last.error = "" =>
    IF CosignTriggered /\ SourceFilenameAfterIncoming
    THEN /\ ColLoc(last.df.cols, SOURCE_FILENAME_COL) + 1
              = ColLoc(last.df.cols, INCOMING_CLIENT_FILENAME_COL)
         /\ OtherColumns(last.df.cols) = OtherColumns(last.named.cols)
         /\ \A i \in Rows(last.named) : \A c \in Range(last.named.cols) :
              c \notin Range(COSIGN_PII_COLUMNS) => last.ack_df.rows[i][c] = last.named.rows[i][c]
    ELSE AfterCosignStep = last.named.cols

\* Source_Filename was moved over a column, in a file that also has a row of
\* another agent
C23_MovedOverAColumn ==
  /\ CosignTriggered /\ SourceFilenameAfterIncoming
  /\ Len(last.named.rows) > 1 /\ \E i \in Rows(last.named) : ~IsCosignRow(i)
  /\ ColLoc(last.named.cols, INCOMING_CLIENT_FILENAME_COL) > 1
  /\ ColLoc(last.named.cols, SOURCE_FILENAME_COL)
       > ColLoc(last.named.cols, INCOMING_CLIENT_FILENAME_COL) + 1
  /\ ColLoc(last.df.cols, SOURCE_FILENAME_COL) + 1
       = ColLoc(last.df.cols, INCOMING_CLIENT_FILENAME_COL)

\* the nine fixed columns, and the input columns the output is to retain
FixedColumns ==
  {"Transfer_Flag", "job_run_registration", "incoming_record_guid", "is_ipay",
   "Error_Job_Run", "Error_Source", "Error_Update_Datetime", "Genesis_Job_Run",
   "Standard_Job_Run"}
Retained == Range(last.file.cols) \ FixedColumns
\* the columns no step writes to
Untouched ==
  Retained \ ({SOURCE_FILENAME_COL, ERROR_TYPE_COL, CLIENT_ACTION_COL}
               \cup Range(COSIGN_PII_COLUMNS) \cup Range(pii_columns_customer))

\* C24: the output has none of the nine fixed columns, has every other input
\* column and Source_Filename and Client_Action, each once, keeps the retained
\* input columns in their input order (Source_Filename aside when the COSIGN
\* step moves it), and has the rows of the input in their order.
C24_OutputSchemaAndRows ==
  last.error = "" =>
    /\ Range(last.df.cols) \cap FixedColumns = {}
    /\ Range(last.df.cols) = Retained \cup {SOURCE_FILENAME_COL, CLIENT_ACTION_COL}
    /\ Len(last.df.cols) = Cardinality(Range(last.df.cols))
    /\ SeqFilter(last.df.cols, Retained \ {SOURCE_FILENAME_COL})
         = SeqFilter(last.file.cols, Retained \ {SOURCE_FILENAME_COL})
    /\ ~CosignTriggered => SeqFilter(last.df.cols, Retained) = SeqFilter(last.file.cols, Retained)
    /\ Len(last.df.rows) = Len(last.file.rows)
    /\ \A i \in Rows(last.df) : \A c \in Untouched \cap Range(last.df.cols) :
         last.df.rows[i][c] = PyStr(RegexRemoveNan(StrOf(last.read.rows[i][c])))

\* C25: the engine returns exactly the columns of its input in the input's
\* order, also when the input has a column of its own named composite_key or
\* Transaction_Reason_Text: no key column is added and no input column removed.
C25_EnginePreservesSchema ==
  EngineCalled => EngineOut.cols = EngineIn.cols

\* the table as the loader returned it for the uploaded mapping file
TableAsLoaded ==
  IF error_mapping_file = NoUpload THEN None ELSE load_error_mapping_file(error_mapping_file)

\* C26: after any number of files the mapping table is the table as loaded,
\* with no key column added, and the result of the last file is the result
\* of processing that file alone with the table as loaded.
C26_MappingTableReadOnly ==
  pc = "files" =>
    /\ error_mapping_df = TableAsLoaded
    /\ Len(uploaded_files) > 0 =>
         last.df = process_csv_file(uploaded_files[Len(uploaded_files)], global_source_filename,
                                    remove_pii, TableAsLoaded).df

\* a second file went through tier 1 after a first file did
C26_TwoTierOneRuns ==
  /\ Len(uploaded_files) = 2 /\ Len(processed_data) = 2
  /\ last.mapped /\ last.eng.tier1 /\ last.eng.error_mask # {}
  /\ \E i \in Rows(processed_data[1].data) :
       processed_data[1].data.rows[i][ERROR_TYPE_COL] = PyStr("M1")
  /\ error_mapping_df = TableAsLoaded

\* the engine ran to its report and returned its result
EngineCompleted == EngineCalled /\ last.eng.ran /\ ~last.eng.raised
ErrorRowSet == {i \in Rows(EngineIn) : IsErrorRow(i)}
UnmatchedRows == ErrorRowSet \ (last.eng.error_mask \cup last.eng.simple_match_mask)

\* C27: on a completed run every error row is counted once, as matched in
\* tier 1, matched in tier 2 or unmatched: the mapped count plus the number of
\* unmatched rows is the number of error rows; the matched rows are the
\* rewritten ones; the reported unmatched Error_Type values are the distinct
\* original values of exactly the unmatched rows.
C27_ReportAccounting ==
  EngineCompleted =>
    /\ last.eng.error_mask \cap last.eng.simple_match_mask = {}
    /\ last.eng.error_mask \cup last.eng.simple_match_mask \subseteq ErrorRowSet
    /\ last.eng.total_errors = Cardinality(ErrorRowSet)
    /\ last.eng.mappings_applied + Cardinality(UnmatchedRows) = last.eng.total_errors
    /\ last.eng.mappings_applied <= last.eng.total_errors
    /\ \A i \in ErrorRowSet :
         IF i \in UnmatchedRows
         THEN EngineOut.rows[i][ERROR_TYPE_COL] = EngineIn.rows[i][ERROR_TYPE_COL]
         ELSE Rewritten(i)
    /\ Range(last.eng.unmatched_errors) = {EngineIn.rows[i][ERROR_TYPE_COL] : i \in UnmatchedRows}
    /\ Len(last.eng.unmatched_errors) = Cardinality(Range(last.eng.unmatched_errors))

\* a completed run that reports a matched row and an unmatched row
C27_MatchedBesideUnmatched ==
  /\ EngineCompleted
  /\ last.eng.mappings_applied = 1 /\ last.eng.total_errors = 2
  /\ last.eng.unmatched_errors = <<PyStr("E1")>>
====
